---- MODULE Spec2Model ----
(***************************************************************************)
(* Parking management system: the park list, each park's log hashtable     *)
(* (separate chaining, prime sizes, growth on the append path) and the     *)
(* commands that drive them ('p', 'e', 's', 'v', 'f', 'r').                *)
(*                                                                         *)
(* Strings are sequences of character codes, so that the hash and the      *)
(* plate validation work on characters as the C code does.  A linked list  *)
(* is the sequence of its nodes from the head; NULL is the empty sequence. *)
(* An unsigned int that can exceed 2^31 is kept as two 16-bit limbs.       *)
(***************************************************************************)
EXTENDS Integers, Sequences, FiniteSets, TLC

VARIABLES headPark, lastTimestamp, lastOp

vars == <<headPark, lastTimestamp, lastOp>>

(***************************************************************************)
(* Program constants.                                                      *)
(***************************************************************************)
INITIAL_SIZE == 53
DJB2_CONSTANT == 5381
MAX_PARKS == 20
PLATE_LENGTH == 9
Hyphen == 45
Limb == 256 * 256

(***************************************************************************)
(* Bounds of the model.                                                    *)
(***************************************************************************)
\* Spec: records in the tables of all parks together.
MaxSmallLogs == 3
\* SpecGrow: records per table.
MaxLogs == 42
\* SpecFill: records per table, and vehicles of the convoy.
MaxFillLogs == 82
MaxFillers == 41
\* SpecPrime: greatest argument of nearestPrime.
MaxPrimeArg == 10000
\* SpecHash: characters of the plate.
MaxHashLen == 8
\* SpecQuery: records in the tables of all parks together.
MaxQueryLogs == 2
\* SpecSort: records of the list.
MaxSortLen == 3

(***************************************************************************)
(* Timestamps (timestamp.c).                                               *)
(***************************************************************************)
newTimestamp(d, m, y, h, min) ==
    [day |-> d, month |-> m, year |-> y, hour |-> h, minute |-> min]

INITIAL_TIMESTAMP == newTimestamp(0, 0, 0, 0, 0)

DAYS_IN_MONTH == <<31, 28, 31, 30, 31, 30, 31, 31, 30, 31, 30, 31>>

compareDate(t1, t2) ==
    IF t1.year # t2.year THEN (IF t1.year < t2.year THEN -1 ELSE 1)
    ELSE IF t1.month # t2.month THEN (IF t1.month < t2.month THEN -1 ELSE 1)
    ELSE IF t1.day # t2.day THEN (IF t1.day < t2.day THEN -1 ELSE 1)
    ELSE 0

compareTimestamps(t1, t2) ==
    LET dateComparison == compareDate(t1, t2) IN
    IF dateComparison # 0 THEN dateComparison
    ELSE IF t1.hour # t2.hour THEN (IF t1.hour < t2.hour THEN -1 ELSE 1)
    ELSE IF t1.minute # t2.minute THEN (IF t1.minute < t2.minute THEN -1 ELSE 1)
    ELSE 0

isInitialTimestamp(t) == compareTimestamps(t, INITIAL_TIMESTAMP) = 0

validTimestamp(t) ==
    IF t.month < 1 \/ t.month > 12 THEN FALSE
    ELSE IF t.day < 1 \/ t.day > DAYS_IN_MONTH[t.month] THEN FALSE
    ELSE IF t.hour < 0 \/ t.hour > 23 THEN FALSE
    ELSE IF t.minute < 0 \/ t.minute > 59 THEN FALSE
    ELSE TRUE

(***************************************************************************)
(* Plates (plate.c).  A plate is the 8 characters read by "%8s".           *)
(***************************************************************************)
isUpperLetter(c) == c >= 65 /\ c <= 90

isDigit(c) == c >= 48 /\ c <= 57

PairKind(plate, i) ==
    IF isDigit(plate[i]) /\ isDigit(plate[i + 1]) THEN "digits"
    ELSE IF isUpperLetter(plate[i]) /\ isUpperLetter(plate[i + 1]) THEN "letters"
    ELSE "invalid"

validPlate(plate) ==
    IF plate[3] # Hyphen \/ plate[6] # Hyphen THEN FALSE
    ELSE LET kinds == [k \in 1..3 |-> PairKind(plate, 3 * k - 2)] IN
         IF \E k \in 1..3 : kinds[k] = "invalid" THEN FALSE
         ELSE (\E k \in 1..3 : kinds[k] = "digits")
              /\ (\E k \in 1..3 : kinds[k] = "letters")

(***************************************************************************)
(* Tariffs (tariff.c); amounts in cents.                                   *)
(***************************************************************************)
newTariff(value15, value15after1, valueMaxDaily) ==
    [value15 |-> value15, value15after1 |-> value15after1,
     valueMaxDaily |-> valueMaxDaily]

\* A test that lets equal values pass.
validTariffWithEqualValues(tariff) ==
    /\ tariff.value15 <= tariff.value15after1
    /\ tariff.value15after1 <= tariff.valueMaxDaily
    /\ tariff.value15 > 0

validTariff(tariff) ==
    /\ tariff.value15 < tariff.value15after1
    /\ tariff.value15after1 < tariff.valueMaxDaily
    /\ tariff.value15 > 0

(***************************************************************************)
(* Logs (log.c).  nth stands for the node's address: it tells apart two    *)
(* nodes of one table that hold the same plate and timestamps (the node is *)
(* the nth one allocated for its plate in its table).                      *)
(***************************************************************************)
newLog(plate, parkName, nth) ==
    [plate |-> plate, parkName |-> parkName,
     entryTimestamp |-> INITIAL_TIMESTAMP, exitTimestamp |-> INITIAL_TIMESTAMP,
     nth |-> nth]

\* strcmp on strings without the terminating 0: the difference of the first
\* bytes that differ, the end of a string counting as byte 0.
RECURSIVE strcmp(_, _)
strcmp(s1, s2) ==
    LET c1 == IF s1 = <<>> THEN 0 ELSE Head(s1)
        c2 == IF s2 = <<>> THEN 0 ELSE Head(s2)
    IN  IF c1 # c2 THEN c1 - c2
        ELSE IF c1 = 0 THEN 0
        ELSE strcmp(Tail(s1), Tail(s2))

\* A merge that links the whole first list in front of the second.
mergeInGivenOrder(list1, list2, sortBy) == list1 \o list2

\* sortBy is "e" for 'e'; any other value selects the exit timestamp.
RECURSIVE merge(_, _, _)
merge(list1, list2, sortBy) ==
    IF list1 = <<>> THEN list2
    ELSE IF list2 = <<>> THEN list1
    ELSE LET parkNameCmp == strcmp(Head(list1).parkName, Head(list2).parkName)
             timestampComparison ==
                 IF sortBy = "e"
                 THEN compareTimestamps(Head(list1).entryTimestamp,
                                        Head(list2).entryTimestamp) = -1
                 ELSE compareTimestamps(Head(list1).exitTimestamp,
                                        Head(list2).exitTimestamp) = -1
         IN  IF parkNameCmp < 0 \/ (parkNameCmp = 0 /\ timestampComparison)
             THEN <<Head(list1)>> \o merge(Tail(list1), list2, sortBy)
             ELSE <<Head(list2)>> \o merge(list1, Tail(list2), sortBy)

\* Position of slow when the loop of split ends; fast > n stands for NULL.
RECURSIVE SlowAtEnd(_, _, _)
SlowAtEnd(n, slow, fast) ==
    IF fast > n THEN slow
    ELSE IF fast + 1 > n THEN slow
    ELSE SlowAtEnd(n, slow + 1, fast + 2)

\* A split that cuts the list one node behind slow.
splitLosingOne(head) ==
    LET slow == SlowAtEnd(Len(head), 1, 2)
    IN  [firstHalf |-> SubSeq(head, 1, slow),
         secondHalf |-> SubSeq(head, slow + 2, Len(head))]

\* A split that cuts the list behind its first node.
splitOffHead(head) ==
    [firstHalf |-> SubSeq(head, 1, 1),
     secondHalf |-> SubSeq(head, 2, Len(head))]

\* head has at least one node.
split(head) ==
    LET slow == SlowAtEnd(Len(head), 1, 2)
    IN  [firstHalf |-> SubSeq(head, 1, slow),
         secondHalf |-> SubSeq(head, slow + 1, Len(head))]

\* The list that *head points to when the call returns.
RECURSIVE mergeSort(_, _)
mergeSort(head, sortBy) ==
    IF Len(head) <= 1 THEN head
    ELSE LET halves == split(head)
         IN  merge(mergeSort(halves.firstHalf, sortBy),
                   mergeSort(halves.secondHalf, sortBy), sortBy)

(***************************************************************************)
(* Hashtable (hashtable.c).  logs maps the index of each non-empty bucket  *)
(* to its chain; the other buckets of 0 .. size - 1 hold NULL.             *)
(***************************************************************************)
\* A step that loses the carry from the low limb to the high one.
Djb2StepWithoutCarry(hash, c) ==
    <<(hash[1] * 33) % Limb, (hash[2] * 33 + c) % Limb>>

\* hash = hash * 33 + c modulo 2^32, on the limbs <<high, low>>.
Djb2Step(hash, c) ==
    LET low == hash[2] * 33 + c
        high == hash[1] * 33 + (low \div Limb)
    IN  <<high % Limb, low % Limb>>

RECURSIVE Djb2(_, _, _)
Djb2(plate, i, hash) ==
    IF i > Len(plate) THEN hash
    ELSE IF plate[i] # Hyphen THEN Djb2(plate, i + 1, Djb2Step(hash, plate[i]))
    ELSE Djb2(plate, i + 1, hash)

plateHash(plate, size) ==
    LET hash == Djb2(plate, 1, <<DJB2_CONSTANT \div Limb, DJB2_CONSTANT % Limb>>)
    IN  ((hash[1] % size) * (Limb % size) + (hash[2] % size)) % size

newHashtable ==
    [logs |-> <<>>, size |-> INITIAL_SIZE, numElements |-> 0]

getSize(ht) == ht.size

\* A bounds test against the size the array had at creation.
getLogAtIndexOfInitialArray(ht, index) ==
    IF ht = <<>> \/ index >= INITIAL_SIZE THEN <<>>
    ELSE IF index \in DOMAIN ht.logs THEN ht.logs[index]
    ELSE <<>>

\* A NULL table is the empty sequence, like every NULL.
getLogAtIndex(ht, index) ==
    IF ht = <<>> \/ index >= ht.size THEN <<>>
    ELSE IF index \in DOMAIN ht.logs THEN ht.logs[index]
    ELSE <<>>

\* logs[index] = chain
SetBucket(logs, index, chain) ==
    (index :> chain) @@ logs

\* A scan that stops at the first node with this plate, exit or no exit.
RECURSIVE ScanAnyExit(_, _, _)
ScanAnyExit(chain, plate, k) ==
    IF k > Len(chain) THEN 0
    ELSE IF chain[k].plate = plate THEN k
    ELSE ScanAnyExit(chain, plate, k + 1)

\* Position in the chain of the first node with this plate and no exit;
\* 0 for NULL.
RECURSIVE ScanWithoutExit(_, _, _)
ScanWithoutExit(chain, plate, k) ==
    IF k > Len(chain) THEN 0
    ELSE IF chain[k].plate = plate /\ isInitialTimestamp(chain[k].exitTimestamp)
         THEN k
    ELSE ScanWithoutExit(chain, plate, k + 1)

\* A lookup that goes to the bucket the plate had in the initial array.
InitialBucketLookup(ht, plate) ==
    ScanWithoutExit(getLogAtIndex(ht, plateHash(plate, INITIAL_SIZE)), plate, 1)

getPlateLastLogWithoutExit(ht, plate) ==
    ScanWithoutExit(getLogAtIndex(ht, plateHash(plate, getSize(ht))), plate, 1)

\* A loop that tries the divisors 6k - 1 and forgets 6k + 1.
RECURSIVE HasDivisorBelowSixK(_, _)
HasDivisorBelowSixK(num, i) ==
    IF i * i > num THEN FALSE
    ELSE IF num % i = 0 THEN TRUE
    ELSE HasDivisorBelowSixK(num, i + 6)

RECURSIVE HasDivisor(_, _)
HasDivisor(num, i) ==
    IF i * i > num THEN FALSE
    ELSE IF num % i = 0 \/ num % (i + 2) = 0 THEN TRUE
    ELSE HasDivisor(num, i + 6)

isPrime(num) ==
    IF num <= 1 THEN FALSE
    ELSE IF num <= 3 THEN TRUE
    ELSE IF num % 2 = 0 \/ num % 3 = 0 THEN FALSE
    ELSE ~HasDivisor(num, 5)

RECURSIVE NextOddPrime(_)
NextOddPrime(n) == IF isPrime(n) THEN n ELSE NextOddPrime(n + 2)

\* The search without the test: the odd number from which it starts.
nearestOdd(n) ==
    IF n <= 1 THEN 2
    ELSE IF n % 2 = 0 THEN n + 1 ELSE n

nearestPrime(n) ==
    IF n <= 1 THEN 2
    ELSE NextOddPrime(IF n % 2 = 0 THEN n + 1 ELSE n)

\* The nodes in the order in which resizeHashtable's loops visit them:
\* buckets lo .. hi by index, each chain from its head.
RECURSIVE VisitOrder(_, _, _)
VisitOrder(ht, lo, hi) ==
    IF lo > hi THEN <<>>
    ELSE IF lo = hi THEN getLogAtIndex(ht, lo)
    ELSE LET mid == (lo + hi) \div 2 IN
         VisitOrder(ht, lo, mid) \o VisitOrder(ht, mid + 1, hi)

\* A move that loses the node visited last among those of the bucket.
MovedChainButLast(visited, newIndexes, newIndex) ==
    LET here == SelectSeq([k \in 1..Len(visited) |-> k],
                          LAMBDA k : newIndexes[k] = newIndex)
    IN  [m \in 1..(Len(here) - 1) |-> visited[here[Len(here) - m]]]

\* The chain that the loops leave in bucket newIndex: every visited node
\* with that new index is linked in front of the nodes moved before it
\* (log->next = newLogs[newIndex]; newLogs[newIndex] = log), so the chain
\* holds them last visited first.  newIndexes[k] is the new index of the
\* k-th visited node.
MovedChain(visited, newIndexes, newIndex) ==
    LET here == SelectSeq([k \in 1..Len(visited) |-> k],
                          LAMBDA k : newIndexes[k] = newIndex)
    IN  [m \in 1..Len(here) |-> visited[here[Len(here) + 1 - m]]]

\* A new size that is not brought to a prime.
DoubledSize(size) == size * 2 + 1

NewSize(size) == nearestPrime(size * 2 + 1)

\* unsigned int newIndex = plateHash(getLogPlate(log), newSize)
\* A new index computed for the size the table is leaving.
OldIndex(plate, newSize) == plateHash(plate, (newSize - 1) \div 2)

NewIndex(plate, newSize) == plateHash(plate, newSize)

resizeHashtable(ht) ==
    LET newSize == NewSize(ht.size)
        visited == VisitOrder(ht, 0, ht.size - 1)
        newIndexes == [k \in 1..Len(visited) |->
                          NewIndex(visited[k].plate, newSize)] @@ <<>>
        newLogs == [newIndex \in {newIndexes[k] : k \in 1..Len(visited)} |->
                       MovedChain(visited, newIndexes, newIndex)]
    IN  [ht EXCEPT !.logs = newLogs, !.size = newSize]

\* A table that never finds itself loaded.
NeverOverLoadFactor(numElements, size) == FALSE

\* A threshold of 0.8 in place of 0.75.
OverFourFifths(numElements, size) == 5 * numElements > 4 * size

\* (double)numElements / size > LOAD_FACTOR_THRESHOLD, with 0.75 = 3/4
OverLoadFactor(numElements, size) == 4 * numElements > 3 * size

\* An insert that makes the record the head of its bucket, whatever the
\* bucket holds.
addLogToTableAsHead(ht, log) ==
    LET counted == [ht EXCEPT !.numElements = @ + 1]
        index == plateHash(log.plate, getSize(counted))
    IN  [table |-> [counted EXCEPT !.logs = SetBucket(@, index, <<log>>)],
         path |-> "head", resized |-> FALSE, before |-> <<>>]

\* An insert that tests the load on both paths.
addLogToTableTestingBothPaths(ht, log) ==
    LET counted == [ht EXCEPT !.numElements = @ + 1]
        index == plateHash(log.plate, getSize(counted))
        currentLog == getLogAtIndex(counted, index)
        linked == [counted EXCEPT
                      !.logs = SetBucket(@, index, Append(currentLog, log))]
        path == IF currentLog = <<>> THEN "head" ELSE "append"
    IN  IF OverLoadFactor(linked.numElements, getSize(linked))
        THEN [table |-> resizeHashtable(linked),
              path |-> path, resized |-> TRUE, before |-> linked]
        ELSE [table |-> linked,
              path |-> path, resized |-> FALSE, before |-> <<>>]

\* An insert that links the record and leaves numElements as it is.
addLogToTableUncounted(ht, log) ==
    LET index == plateHash(log.plate, getSize(ht))
        currentLog == getLogAtIndex(ht, index)
    IN  [table |-> [ht EXCEPT !.logs = SetBucket(@, index, Append(currentLog, log))],
         path |-> IF currentLog = <<>> THEN "head" ELSE "append",
         resized |-> FALSE, before |-> <<>>]

\* The table after the call, with the path the call took and, when it grew
\* the table, the table as resizeHashtable received it.
addLogToTable(ht, log) ==
    LET counted == [ht EXCEPT !.numElements = @ + 1]
        index == plateHash(log.plate, getSize(counted))
        currentLog == getLogAtIndex(counted, index)
        appended == [counted EXCEPT
                        !.logs = SetBucket(@, index, Append(currentLog, log))]
    IN  IF currentLog = <<>>
        THEN [table |-> [counted EXCEPT !.logs = SetBucket(@, index, <<log>>)],
              path |-> "head", resized |-> FALSE, before |-> <<>>]
        ELSE IF OverLoadFactor(appended.numElements, getSize(appended))
        THEN [table |-> resizeHashtable(appended),
              path |-> "append", resized |-> TRUE, before |-> appended]
        ELSE [table |-> appended,
              path |-> "append", resized |-> FALSE, before |-> <<>>]

(***************************************************************************)
(* Parks (park.c).  headPark is the list of parks from its head.           *)
(***************************************************************************)
newPark(name, capacity, tariff) ==
    [name |-> name, capacity |-> capacity, availableSlots |-> capacity,
     tariff |-> tariff, logTable |-> newHashtable]

getTable(park) == park.logTable

totalParks(parks) == Len(parks)

\* Position in the list of the first park with this name; 0 for NULL.
RECURSIVE ScanParks(_, _, _)
ScanParks(parks, parkName, k) ==
    IF k > Len(parks) THEN 0
    ELSE IF parkName = parks[k].name THEN k
    ELSE ScanParks(parks, parkName, k + 1)

getPark(parks, parkName) == ScanParks(parks, parkName, 1)

plateInPark(park, plate) ==
    getPlateLastLogWithoutExit(getTable(park), plate) # 0

RECURSIVE ScanPlateInAnyPark(_, _, _)
ScanPlateInAnyPark(parks, plate, k) ==
    IF k > Len(parks) THEN FALSE
    ELSE IF plateInPark(parks[k], plate) THEN TRUE
    ELSE ScanPlateInAnyPark(parks, plate, k + 1)

plateInAnyPark(parks, plate) == ScanPlateInAnyPark(parks, plate, 1)

\* Number of nodes of the chain that hold the plate.
RECURSIVE CountPlate(_, _, _)
CountPlate(chain, plate, k) ==
    IF k > Len(chain) THEN 0
    ELSE (IF chain[k].plate = plate THEN 1 ELSE 0) + CountPlate(chain, plate, k + 1)

LogsOfPlate(ht, plate) ==
    CountPlate(getLogAtIndex(ht, plateHash(plate, getSize(ht))), plate, 1)

\* A call that adds an entry whether or not the vehicle is in the park.
registerEntryOnly(park, plate, timestamp) ==
    LET newLogEntry ==
            [newLog(plate, park.name, LogsOfPlate(getTable(park), plate) + 1)
                EXCEPT !.entryTimestamp = timestamp]
        added == addLogToTable(getTable(park), newLogEntry)
    IN  [park |-> [park EXCEPT !.availableSlots = @ - 1,
                               !.logTable = added.table],
         out |-> "entry", path |-> added.path, resized |-> added.resized,
         before |-> added.before]

\* A call that writes the exit into the first record of the plate in the
\* chain, with or without exit.
registerEntryExitOnFirstLog(park, plate, timestamp) ==
    IF plateInPark(park, plate)
    THEN LET ht == getTable(park)
             index == plateHash(plate, getSize(ht))
             firstLog == ScanAnyExit(getLogAtIndex(ht, index), plate, 1)
         IN  [park |-> [park EXCEPT
                            !.availableSlots = @ + 1,
                            !.logTable.logs[index][firstLog].exitTimestamp
                                = timestamp],
              out |-> "exit", path |-> "none", resized |-> FALSE, before |-> <<>>]
    ELSE registerEntryOnly(park, plate, timestamp)

\* A call that leaves availableSlots as it is when it registers an exit.
registerExitKeepingSlots(park, plate, timestamp) ==
    IF plateInPark(park, plate)
    THEN LET ht == getTable(park)
             index == plateHash(plate, getSize(ht))
             plateLastLog == getPlateLastLogWithoutExit(ht, plate)
         IN  [park |-> [park EXCEPT
                            !.logTable.logs[index][plateLastLog].exitTimestamp
                                = timestamp],
              out |-> "exit", path |-> "none", resized |-> FALSE, before |-> <<>>]
    ELSE registerEntryOnly(park, plate, timestamp)

\* The park after the call, with what addLogToTable reports.
registerEntryExit(park, plate, timestamp) ==
    IF plateInPark(park, plate)
    THEN LET ht == getTable(park)
             index == plateHash(plate, getSize(ht))
             plateLastLog == getPlateLastLogWithoutExit(ht, plate)
         IN  [park |-> [park EXCEPT
                            !.availableSlots = @ + 1,
                            !.logTable.logs[index][plateLastLog].exitTimestamp
                                = timestamp],
              out |-> "exit", path |-> "none", resized |-> FALSE, before |-> <<>>]
    ELSE LET newLogEntry ==
                 [newLog(plate, park.name, LogsOfPlate(getTable(park), plate) + 1)
                     EXCEPT !.entryTimestamp = timestamp]
             added == addLogToTable(getTable(park), newLogEntry)
         IN  [park |-> [park EXCEPT !.availableSlots = @ - 1,
                                    !.logTable = added.table],
              out |-> "entry", path |-> added.path, resized |-> added.resized,
              before |-> added.before]

\* The checks without the comparison with the last accepted timestamp.
validWithoutLastTimestamp(command, parkName, plate, timestamp) ==
    LET park == getPark(headPark, parkName) IN
    IF park = 0 THEN "no such parking"
    ELSE IF command = "e" /\ headPark[park].availableSlots <= 0
         THEN "parking is full"
    ELSE IF ~validPlate(plate) THEN "invalid licence plate"
    ELSE IF command = "e" /\ plateInAnyPark(headPark, plate)
         THEN "invalid vehicle entry"
    ELSE IF command = "s" /\ ~plateInAnyPark(headPark, plate)
         THEN "invalid vehicle exit"
    ELSE IF ~validTimestamp(timestamp) THEN "invalid date"
    ELSE "valid"

\* The checks with the days compared and the time of day ignored.
validComparingDates(command, parkName, plate, timestamp) ==
    LET park == getPark(headPark, parkName) IN
    IF park = 0 THEN "no such parking"
    ELSE IF command = "e" /\ headPark[park].availableSlots <= 0
         THEN "parking is full"
    ELSE IF ~validPlate(plate) THEN "invalid licence plate"
    ELSE IF command = "e" /\ plateInAnyPark(headPark, plate)
         THEN "invalid vehicle entry"
    ELSE IF command = "s" /\ ~plateInAnyPark(headPark, plate)
         THEN "invalid vehicle exit"
    ELSE IF ~validTimestamp(timestamp)
            \/ compareDate(lastTimestamp, timestamp) = 1
         THEN "invalid date"
    ELSE "valid"

\* The message of the first failing check; "valid" when all pass.
valid_inputs_commands_e_s(command, parkName, plate, timestamp) ==
    LET park == getPark(headPark, parkName) IN
    IF park = 0 THEN "no such parking"
    ELSE IF command = "e" /\ headPark[park].availableSlots <= 0
         THEN "parking is full"
    ELSE IF ~validPlate(plate) THEN "invalid licence plate"
    ELSE IF command = "e" /\ plateInAnyPark(headPark, plate)
         THEN "invalid vehicle entry"
    ELSE IF command = "s" /\ ~plateInAnyPark(headPark, plate)
         THEN "invalid vehicle exit"
    ELSE IF ~validTimestamp(timestamp)
            \/ compareTimestamps(lastTimestamp, timestamp) = 1
         THEN "invalid date"
    ELSE "valid"

\* The checks with room for one park more than MAX_PARKS.
addParkAllowingOneMore(parks, park) ==
    IF getPark(parks, park.name) # 0 THEN "parking already exists"
    ELSE IF ~(park.capacity > 0) THEN "invalid capacity"
    ELSE IF ~validTariff(park.tariff) THEN "invalid cost"
    ELSE IF totalParks(parks) > MAX_PARKS THEN "too many parks"
    ELSE "added"

\* The message of addPark's first failing check; "added" when all pass.
addPark(parks, park) ==
    IF getPark(parks, park.name) # 0 THEN "parking already exists"
    ELSE IF ~(park.capacity > 0) THEN "invalid capacity"
    ELSE IF ~validTariff(park.tariff) THEN "invalid cost"
    ELSE IF totalParks(parks) >= MAX_PARKS THEN "too many parks"
    ELSE "added"

\* A removal that leaves the list ending before the park.
removeParkCuttingList(parks, parkName) ==
    LET k == getPark(parks, parkName) IN
    IF k = 0 THEN parks
    ELSE SubSeq(parks, 1, k - 1)

\* The list without its first park of this name.
removePark(parks, parkName) ==
    LET k == getPark(parks, parkName) IN
    IF k = 0 THEN parks
    ELSE SubSeq(parks, 1, k - 1) \o SubSeq(parks, k + 1, Len(parks))

\* The copy that the queries make of a record: newLog with the park's name,
\* then copyLogTimestamps.  The copy keeps nth to tell which node it copies.
CopyOfLog(log, park) ==
    [newLog(log.plate, park.name, log.nth)
        EXCEPT !.entryTimestamp = log.entryTimestamp,
               !.exitTimestamp = log.exitTimestamp]

\* The copies of the records of the plate in the plate's bucket of parks[k]
\* and of the parks behind it, in the order in which addLogtoLog links them.
RECURSIVE PlateLogsFrom(_, _, _)
PlateLogsFrom(parks, plate, k) ==
    IF k > Len(parks) THEN <<>>
    ELSE LET ht == getTable(parks[k])
             chain == getLogAtIndex(ht, plateHash(plate, getSize(ht)))
             found == SelectSeq(chain, LAMBDA log : log.plate = plate)
         IN  [i \in 1..Len(found) |-> CopyOfLog(found[i], parks[k])]
                 \o PlateLogsFrom(parks, plate, k + 1)

\* The list of copies as addLogtoLog leaves it, not sorted.
getPlateLogsUnsorted(parks, plate) == PlateLogsFrom(parks, plate, 1)

getPlateLogs(parks, plate) ==
    mergeSort(PlateLogsFrom(parks, plate, 1), "e")

\* The list of copies as the scan of the buckets leaves it, not sorted.
showParkBillingUnsorted(park, timestamp) ==
    LET ht == getTable(park)
        found == SelectSeq(VisitOrder(ht, 0, getSize(ht) - 1),
                           LAMBDA log :
                               /\ ~isInitialTimestamp(log.exitTimestamp)
                               /\ \/ isInitialTimestamp(timestamp)
                                  \/ compareDate(log.exitTimestamp, timestamp) = 0)
    IN  [i \in 1..Len(found) |-> CopyOfLog(found[i], park)]

\* The sorted list of copies (exitLog) from which the bills are printed.
showParkBilling(park, timestamp) ==
    LET ht == getTable(park)
        found == SelectSeq(VisitOrder(ht, 0, getSize(ht) - 1),
                           LAMBDA log :
                               /\ ~isInitialTimestamp(log.exitTimestamp)
                               /\ \/ isInitialTimestamp(timestamp)
                                  \/ compareDate(log.exitTimestamp, timestamp) = 0)
    IN  mergeSort([i \in 1..Len(found) |-> CopyOfLog(found[i], park)], "s")

\* What a command that reaches no table reports about tables.
NoTableOp == [name |-> <<>>, path |-> "none", resized |-> FALSE, before |-> <<>>]

(***************************************************************************)
(* Commands (main.c).  lastOp is what the last command reported.           *)
(***************************************************************************)
Init ==
    /\ headPark = <<>>
    /\ lastTimestamp = INITIAL_TIMESTAMP
    /\ lastOp = [cmd |-> "none", out |-> "none"] @@ NoTableOp

command_p(parkName, capacity, value15, value15after1, valueMaxDaily) ==
    LET park == newPark(parkName, capacity,
                        newTariff(value15, value15after1, valueMaxDaily))
        out == addPark(headPark, park)
    IN  /\ headPark' = IF out = "added" THEN Append(headPark, park) ELSE headPark
        /\ lastOp' = [cmd |-> "p", out |-> out] @@ NoTableOp
        /\ UNCHANGED lastTimestamp

\* A command that keeps the timestamp of a rejected command too.
commands_e_s_AlwaysStamping(command, parkName, plate, timestamp) ==
    LET out == valid_inputs_commands_e_s(command, parkName, plate, timestamp) IN
    IF out # "valid"
    THEN /\ lastOp' = [cmd |-> command, out |-> out] @@ NoTableOp
         /\ lastTimestamp' = IF validTimestamp(timestamp) THEN timestamp
                              ELSE lastTimestamp
         /\ UNCHANGED headPark
    ELSE LET park == getPark(headPark, parkName)
             done == registerEntryExit(headPark[park], plate, timestamp)
         IN  /\ headPark' = [headPark EXCEPT ![park] = done.park]
             /\ lastTimestamp' = timestamp
             /\ lastOp' = [cmd |-> command, out |-> done.out,
                           name |-> parkName, path |-> done.path, resized |-> done.resized,
                           before |-> done.before]

commands_e_s(command, parkName, plate, timestamp) ==
    LET out == valid_inputs_commands_e_s(command, parkName, plate, timestamp) IN
    IF out # "valid"
    THEN /\ lastOp' = [cmd |-> command, out |-> out] @@ NoTableOp
         /\ UNCHANGED <<headPark, lastTimestamp>>
    ELSE LET park == getPark(headPark, parkName)
             done == registerEntryExit(headPark[park], plate, timestamp)
         IN  /\ headPark' = [headPark EXCEPT ![park] = done.park]
             /\ lastTimestamp' = timestamp
             /\ lastOp' = [cmd |-> command, out |-> done.out,
                           name |-> parkName, path |-> done.path, resized |-> done.resized,
                           before |-> done.before]

command_r(parkName) ==
    /\ headPark' = removePark(headPark, parkName)
    /\ lastOp' = [cmd |-> "r",
                  out |-> IF getPark(headPark, parkName) = 0
                          THEN "no such parking" ELSE "removed"] @@ NoTableOp
    /\ UNCHANGED lastTimestamp

command_v(plate) ==
    /\ lastOp' = (IF ~validPlate(plate)
                  THEN [cmd |-> "v", out |-> "invalid licence plate", logs |-> <<>>]
                  ELSE LET plateLogs == getPlateLogs(headPark, plate) IN
                       [cmd |-> "v",
                        out |-> IF plateLogs = <<>>
                                THEN "no entries found in any parking"
                                ELSE "printed",
                        logs |-> plateLogs]) @@ NoTableOp
    /\ UNCHANGED <<headPark, lastTimestamp>>

\* A command whose list links the records of the table themselves, not
\* copies: freeLog then frees the records that were billed, and the buckets
\* lose them.
command_f_OnStoredLogs(parkName, day, month, year) ==
    LET park == getPark(headPark, parkName)
        t == newTimestamp(day, month, year, 0, 0)
        rejected == /\ ~isInitialTimestamp(t)
                    /\ \/ ~validTimestamp(t)
                       \/ compareTimestamps(t, lastTimestamp) = 1
        billed(log) == /\ ~isInitialTimestamp(log.exitTimestamp)
                       /\ \/ isInitialTimestamp(t)
                          \/ compareDate(log.exitTimestamp, t) = 0
    IN  /\ lastOp' = (IF park = 0
                      THEN [cmd |-> "f", out |-> "no such parking", logs |-> <<>>]
                      ELSE IF rejected
                      THEN [cmd |-> "f", out |-> "invalid date", logs |-> <<>>]
                      ELSE [cmd |-> "f", out |-> "printed",
                            logs |-> showParkBilling(headPark[park], t)])
                         @@ NoTableOp
        /\ headPark' = IF park = 0 \/ rejected THEN headPark
                       ELSE [headPark EXCEPT ![park].logTable.logs =
                                [i \in DOMAIN @ |->
                                    SelectSeq(@[i], LAMBDA log : ~billed(log))]]
        /\ UNCHANGED lastTimestamp

\* day, month and year are 0 when the command gives no date.
command_f(parkName, day, month, year) ==
    LET park == getPark(headPark, parkName)
        t == newTimestamp(day, month, year, 0, 0)
    IN  /\ lastOp' = (IF park = 0
                      THEN [cmd |-> "f", out |-> "no such parking", logs |-> <<>>]
                      ELSE IF /\ ~isInitialTimestamp(t)
                              /\ \/ ~validTimestamp(t)
                                 \/ compareTimestamps(t, lastTimestamp) = 1
                      THEN [cmd |-> "f", out |-> "invalid date", logs |-> <<>>]
                      ELSE [cmd |-> "f", out |-> "printed",
                            logs |-> showParkBilling(headPark[park], t)])
                         @@ NoTableOp
        /\ UNCHANGED <<headPark, lastTimestamp>>

(***************************************************************************)
(* Inputs.                                                                 *)
(***************************************************************************)
\* "AA-02-AA", "DF-51-AA" (same bucket as AA-02-AA in 53 and in 107 buckets),
\* "DA-08-DA" (another bucket in 53, the same in 107), "AA-BB-CC" (invalid).
PlateA == <<65, 65, 45, 48, 50, 45, 65, 65>>
PlateB == <<68, 70, 45, 53, 49, 45, 65, 65>>
PlateD == <<68, 65, 45, 48, 56, 45, 68, 65>>
PlateBad == <<65, 65, 45, 66, 66, 45, 67, 67>>

\* "00-AA-AA" .. "00-AA-AZ", "00-AA-BA" .. : one bucket each in 53 buckets,
\* none of them the bucket of AA-02-AA, for k <= 46.
Filler(k) ==
    IF k <= 26 THEN <<48, 48, 45, 65, 65, 45, 65, 64 + k>>
    ELSE <<48, 48, 45, 65, 65, 45, 66, 64 + k - 26>>

\* "N", "S"
ParkN == <<78>>
ParkS == <<83>>

T1 == newTimestamp(1, 1, 2024, 8, 0)
T2 == newTimestamp(1, 1, 2024, 8, 1)
T3 == newTimestamp(2, 1, 2024, 8, 0)
TBad == newTimestamp(29, 2, 2024, 8, 0)

\* The named park's table, or a fresh one when there is no such park.
TableOf(parkName) ==
    IF getPark(headPark, parkName) = 0 THEN newHashtable
    ELSE getTable(headPark[getPark(headPark, parkName)])

\* The command adds no record beyond the bound.
Room(parkName, max) == TableOf(parkName).numElements < max

(***************************************************************************)
(* Spec: two parks, two vehicles, few records.                             *)
(***************************************************************************)
\* Number of records in the tables of the first k parks.
RECURSIVE TotalLogs(_, _)
TotalLogs(parks, k) ==
    IF k = 0 THEN 0
    ELSE getTable(parks[k]).numElements + TotalLogs(parks, k - 1)

NextP ==
    \E parkName \in {ParkN, ParkS}, capacity \in {0, 1},
       value15 \in {10, 30} :
        command_p(parkName, capacity, value15, 20, 100)

NextES ==
    \E command \in {"e", "s"}, parkName \in {ParkN, ParkS},
       plate \in {PlateA, PlateD, PlateBad}, timestamp \in {T1, T2, TBad} :
        /\ TotalLogs(headPark, totalParks(headPark)) < MaxSmallLogs
        /\ commands_e_s(command, parkName, plate, timestamp)

NextR == \E parkName \in {ParkN, ParkS} : command_r(parkName)

Next == NextP \/ NextES \/ NextR

Spec == Init /\ [][Next]_vars

(***************************************************************************)
(* SpecGrow: one park, driven by accepted commands only (a rejected        *)
(* command leaves the parks as they are; Spec covers the rejections).  One *)
(* vehicle comes and goes often enough to make the table grow; two others  *)
(* enter and stay.                                                         *)
(***************************************************************************)
Accepted(command, parkName, plate, timestamp) ==
    valid_inputs_commands_e_s(command, parkName, plate, timestamp) = "valid"

GrowP ==
    /\ getPark(headPark, ParkN) = 0
    /\ command_p(ParkN, 3, 10, 20, 100)

GrowA ==
    \E command \in {"e", "s"} :
        /\ Room(ParkN, MaxLogs)
        /\ Accepted(command, ParkN, PlateA, T1)
        /\ commands_e_s(command, ParkN, PlateA, T1)

GrowStay ==
    \E plate \in {PlateB, PlateD} :
        /\ Room(ParkN, MaxLogs)
        /\ Accepted("e", ParkN, plate, T1)
        /\ commands_e_s("e", ParkN, plate, T1)

GrowR ==
    /\ getPark(headPark, ParkN) # 0
    /\ command_r(ParkN)

NextGrow == GrowP \/ GrowA \/ GrowStay \/ GrowR

SpecGrow == Init /\ [][NextGrow]_vars

(***************************************************************************)
(* SpecFill: one park, accepted commands only.  The frequent vehicle comes *)
(* and goes; a convoy of MaxFillers vehicles, each with a bucket of its    *)
(* own, enters one after the other and stays, and the frequent vehicle     *)
(* does not move while the convoy is entering.                             *)
(***************************************************************************)
FillersIn(ht) == ht.numElements - LogsOfPlate(ht, PlateA)

FillP ==
    /\ getPark(headPark, ParkN) = 0
    /\ command_p(ParkN, MaxFillers + 1, 10, 20, 100)

FillA ==
    \E command \in {"e", "s"} :
        /\ Room(ParkN, MaxFillLogs)
        /\ FillersIn(TableOf(ParkN)) \in {0, MaxFillers}
        /\ Accepted(command, ParkN, PlateA, T1)
        /\ commands_e_s(command, ParkN, PlateA, T1)

FillE ==
    /\ Room(ParkN, MaxFillLogs)
    /\ FillersIn(TableOf(ParkN)) < MaxFillers
    /\ Accepted("e", ParkN, Filler(FillersIn(TableOf(ParkN)) + 1), T1)
    /\ commands_e_s("e", ParkN, Filler(FillersIn(TableOf(ParkN)) + 1), T1)

FillR ==
    /\ getPark(headPark, ParkN) # 0
    /\ command_r(ParkN)

NextFill == FillP \/ FillA \/ FillE \/ FillR

SpecFill == Init /\ [][NextFill]_vars

(***************************************************************************)
(* SpecQuery: two parks, two vehicles, accepted entries and exits, and the *)
(* queries 'v' and 'f', valid and invalid.                                 *)
(***************************************************************************)
QueryP ==
    \E parkName \in {ParkN, ParkS} :
        /\ getPark(headPark, parkName) = 0
        /\ command_p(parkName, 2, 10, 20, 100)

QueryES ==
    \E command \in {"e", "s"}, parkName \in {ParkN, ParkS},
       plate \in {PlateA, PlateD}, timestamp \in {T1, T2} :
        /\ Accepted(command, parkName, plate, timestamp)
        /\ commands_e_s(command, parkName, plate, timestamp)
        /\ TotalLogs(headPark', totalParks(headPark')) <= MaxQueryLogs

QueryV == \E plate \in {PlateA, PlateBad} : command_v(plate)

QueryF ==
    \E parkName \in {ParkN, ParkS}, day \in {0, 1, 2} :
        IF day = 0 THEN command_f(parkName, 0, 0, 0)
        ELSE command_f(parkName, day, T1.month, T1.year)

QueryR ==
    \E parkName \in {ParkN, ParkS} :
        /\ getPark(headPark, parkName) # 0
        /\ command_r(parkName)

NextQuery == QueryP \/ QueryES \/ QueryV \/ QueryF \/ QueryR

SpecQuery == Init /\ [][NextQuery]_vars

(***************************************************************************)
(* SpecHistory: two parks and the 'v' command, accepted commands only.     *)
(* One vehicle enters park N first and stays.  The frequent vehicle, whose *)
(* records share its bucket, leaves a few records in park S at 08:00 and   *)
(* then comes and goes in N until the table has grown; the clock turns to  *)
(* 08:01 for the last MaxLateLogs records of N.                            *)
(***************************************************************************)
MaxHistoryLogs == 42
MaxLateLogs == 4
MaxElsewhere == 1

HistoryP ==
    \E parkName \in {ParkN, ParkS} :
        /\ getPark(headPark, parkName) = 0
        /\ command_p(parkName, 3, 10, 20, 100)

HistoryStay ==
    /\ TableOf(ParkN).numElements = 0
    /\ Accepted("e", ParkN, PlateB, T1)
    /\ commands_e_s("e", ParkN, PlateB, T1)

HistoryS ==
    \E command \in {"e", "s"} :
        /\ LogsOfPlate(TableOf(ParkN), PlateA) = 0
        /\ Accepted(command, ParkS, PlateA, T1)
        /\ commands_e_s(command, ParkS, PlateA, T1)
        /\ TableOf(ParkS)'.numElements <= MaxElsewhere

HistoryN ==
    \E command \in {"e", "s"}, timestamp \in {T1, T2} :
        /\ timestamp = T2
               => TableOf(ParkN).numElements + MaxLateLogs >= MaxHistoryLogs
        /\ Accepted(command, ParkN, PlateA, timestamp)
        /\ commands_e_s(command, ParkN, PlateA, timestamp)
        /\ TableOf(ParkN)'.numElements <= MaxHistoryLogs

HistoryV == command_v(PlateA)

NextHistory == HistoryP \/ HistoryStay \/ HistoryS \/ HistoryN \/ HistoryV

SpecHistory == Init /\ [][NextHistory]_vars

(***************************************************************************)
(* SpecBilling: one park, two vehicles, accepted entries and exits on two  *)
(* days, and the 'f' command with and without a date.                      *)
(***************************************************************************)
MaxBillLogs == 3

BillP ==
    /\ getPark(headPark, ParkN) = 0
    /\ command_p(ParkN, 2, 10, 20, 100)

BillES ==
    \E command \in {"e", "s"}, plate \in {PlateA, PlateD},
       timestamp \in {T1, T2, T3} :
        /\ Accepted(command, ParkN, plate, timestamp)
        /\ commands_e_s(command, ParkN, plate, timestamp)
        /\ TableOf(ParkN)'.numElements <= MaxBillLogs

BillF ==
    \E day \in {0, T1.day, T3.day} :
        IF day = 0 THEN command_f(ParkN, 0, 0, 0)
        ELSE command_f(ParkN, day, T1.month, T1.year)

NextBilling == BillP \/ BillES \/ BillF

SpecBilling == Init /\ [][NextBilling]_vars

(***************************************************************************)
(* SpecReject: two parks of one slot, one vehicle and an invalid plate,    *)
(* and every 'e' and 's' command on them, accepted or rejected.            *)
(***************************************************************************)
MaxRejectLogs == 2

RejectP ==
    \E parkName \in {ParkN, ParkS} :
        /\ getPark(headPark, parkName) = 0
        /\ command_p(parkName, 1, 10, 20, 100)

RejectES ==
    \E command \in {"e", "s"}, parkName \in {ParkN, ParkS},
       plate \in {PlateA, PlateBad}, timestamp \in {T1, T2, TBad} :
        /\ commands_e_s(command, parkName, plate, timestamp)
        /\ TotalLogs(headPark', totalParks(headPark')) <= MaxRejectLogs

NextReject == RejectP \/ RejectES

SpecReject == Init /\ [][NextReject]_vars

(***************************************************************************)
(* SpecParks: the list of parks.  A 'p' command names the park after the   *)
(* last of the list ("A", "B", ... in turn), park "A" or the first of the  *)
(* list, with a capacity and a tariff that are valid or not; an 'r'        *)
(* command names the first park, the last or the one after the last.       *)
(***************************************************************************)
MaxParkNames == 21

NameOf(k) == <<64 + k>>

NextName ==
    IF headPark = <<>> THEN NameOf(1)
    ELSE <<headPark[Len(headPark)].name[1] + 1>>

ParksP ==
    \E parkName \in {NextName, NameOf(1)} \cup {headPark[k].name : k \in {1} \cap DOMAIN headPark},
       capacity \in {0, 1}, value15 \in {10, 30} :
        /\ parkName[1] <= 64 + MaxParkNames
        /\ command_p(parkName, capacity, value15, 20, 100)

ParksR ==
    \E parkName \in {NextName} \cup {headPark[k].name : k \in {1, Len(headPark)} \cap DOMAIN headPark} :
        command_r(parkName)

NextParks == ParksP \/ ParksR

SpecParks == Init /\ [][NextParks]_vars

(***************************************************************************)
(* SpecSort: mergeSort on every list of up to MaxSortLen records, sorted   *)
(* again and again by either key.  lastOp holds the list before the call   *)
(* (before), the key by which that list was last sorted (was) and the list *)
(* the call leaves (head).  nth is the node's place in the first list.     *)
(***************************************************************************)
ParkNS == ParkN \o ParkS

SortRecord(parkName, entryTimestamp, exitTimestamp, nth) ==
    [newLog(PlateA, parkName, nth) EXCEPT !.entryTimestamp = entryTimestamp,
                                          !.exitTimestamp = exitTimestamp]

SortInit ==
    /\ headPark = <<>>
    /\ lastTimestamp = INITIAL_TIMESTAMP
    /\ \E n \in 0..MaxSortLen :
           \E parkNames \in [1..n -> {ParkN, ParkNS, ParkS}],
              entries \in [1..n -> {T1, T2}], exits \in [1..n -> {T1, T2}] :
               lastOp = [cmd |-> "list", sortBy |-> "none", was |-> "none",
                         before |-> <<>>,
                         head |-> [k \in 1..n |->
                                      SortRecord(parkNames[k], entries[k],
                                                 exits[k], k)]]

SortCall(sortBy) ==
    /\ lastOp' = [cmd |-> "mergeSort", sortBy |-> sortBy, was |-> lastOp.sortBy,
                  before |-> lastOp.head, head |-> mergeSort(lastOp.head, sortBy)]
    /\ UNCHANGED <<headPark, lastTimestamp>>

SortByEntry == SortCall("e")

SortByExit == SortCall("s")

NextSort == SortByEntry \/ SortByExit

SpecSort == SortInit /\ [][NextSort]_vars

(***************************************************************************)
(* SpecRemove: three parks of one slot, created and removed in any order,  *)
(* and one vehicle that comes and goes, accepted commands only.            *)
(***************************************************************************)
MaxRemoveLogs == 2

RemoveP ==
    \E parkName \in {ParkN, ParkNS, ParkS} :
        /\ getPark(headPark, parkName) = 0
        /\ command_p(parkName, 1, 10, 20, 100)

RemoveES ==
    \E command \in {"e", "s"}, parkName \in {ParkN, ParkNS, ParkS},
       timestamp \in {T1, T2} :
        /\ Accepted(command, parkName, PlateA, timestamp)
        /\ commands_e_s(command, parkName, PlateA, timestamp)
        /\ TotalLogs(headPark', totalParks(headPark')) <= MaxRemoveLogs

RemoveR == \E parkName \in {ParkN, ParkNS, ParkS} : command_r(parkName)

NextRemove == RemoveP \/ RemoveES \/ RemoveR

SpecRemove == Init /\ [][NextRemove]_vars

(***************************************************************************)
(* SpecTariff: validTariff on every tariff of values -1 .. MaxTariffValue, *)
(* and the 'p' command that asks for a park with that tariff.              *)
(***************************************************************************)
MaxTariffValue == 3

TariffInit ==
    /\ headPark = <<>>
    /\ lastTimestamp = INITIAL_TIMESTAMP
    /\ \E value15, value15after1, valueMaxDaily \in -1..MaxTariffValue :
           lastOp = [cmd |-> "tariff", out |-> FALSE,
                     tariff |-> newTariff(value15, value15after1, valueMaxDaily)]

TariffCall ==
    /\ lastOp.cmd = "tariff"
    /\ lastOp' = [cmd |-> "validTariff", out |-> validTariff(lastOp.tariff),
                  tariff |-> lastOp.tariff]
    /\ UNCHANGED <<headPark, lastTimestamp>>

TariffP ==
    /\ lastOp.cmd = "validTariff"
    /\ command_p(ParkN, 1, lastOp.tariff.value15, lastOp.tariff.value15after1,
                 lastOp.tariff.valueMaxDaily)

NextTariff == TariffCall \/ TariffP

SpecTariff == TariffInit /\ [][NextTariff]_vars

(***************************************************************************)
(* SpecPrime: nearestPrime on every n of 0 .. MaxPrimeArg.                 *)
(***************************************************************************)
PrimeInit ==
    /\ headPark = <<>>
    /\ lastTimestamp = INITIAL_TIMESTAMP
    /\ \E n \in 0..MaxPrimeArg : lastOp = [cmd |-> "n", n |-> n, out |-> 0]

PrimeCall ==
    /\ lastOp.cmd = "n"
    /\ lastOp' = [cmd |-> "nearestPrime", n |-> lastOp.n,
                  out |-> nearestPrime(lastOp.n)]
    /\ UNCHANGED <<headPark, lastTimestamp>>

NextPrime == PrimeCall

SpecPrime == PrimeInit /\ [][NextPrime]_vars

(***************************************************************************)
(* SpecHash: plateHash on every string of up to MaxHashLen characters out  *)
(* of '-', 'A' and 'Z', for a table of one bucket, of the initial size and *)
(* of the size after one growth.                                           *)
(***************************************************************************)
HashInit ==
    /\ headPark = <<>>
    /\ lastTimestamp = INITIAL_TIMESTAMP
    /\ \E n \in 0..MaxHashLen :
           \E plate \in [1..n -> {Hyphen, 65, 90}] :
               lastOp = [cmd |-> "plate", plate |-> plate, size |-> 0, out |-> 0]

HashCall ==
    /\ lastOp.cmd = "plate"
    /\ \E size \in {1, INITIAL_SIZE, NewSize(INITIAL_SIZE)} :
           lastOp' = [cmd |-> "plateHash", plate |-> lastOp.plate, size |-> size,
                      out |-> plateHash(lastOp.plate, size)]
    /\ UNCHANGED <<headPark, lastTimestamp>>

NextHash == HashCall

SpecHash == HashInit /\ [][NextHash]_vars

(***************************************************************************)
(* What the claims speak of.                                               *)
(***************************************************************************)
\* Every node of the table, bucket after bucket.
AllLogs(ht) == VisitOrder(ht, 0, ht.size - 1)

IsOpen(log) == isInitialTimestamp(log.exitTimestamp)

\* The nodes of the sequence that hold the plate and have no exit.
OpenLogs(logs, plate) ==
    {k \in 1..Len(logs) : logs[k].plate = plate /\ IsOpen(logs[k])}

PlatesOf(logs) == {logs[k].plate : k \in 1..Len(logs)}

Occurrences(logs, log) == Cardinality({k \in 1..Len(logs) : logs[k] = log})

ParkIndexes == 1..Len(headPark)

\* The table that the last accepted 'e' or 's' command worked on.
LastTable == TableOf(lastOp.name)

Grew == lastOp.resized

\* Position of the node in the chain; 0 when it is not there.
PositionIn(chain, log) ==
    IF \E k \in 1..Len(chain) : chain[k] = log
    THEN CHOOSE k \in 1..Len(chain) : chain[k] = log
    ELSE 0

\* numElements / size > 0.75
AboveThreshold(ht) == 4 * ht.numElements > 3 * getSize(ht)

(***************************************************************************)
(* C1: in every table and for every plate, getPlateLastLogWithoutExit      *)
(* returns NULL exactly when no bucket of the table holds a record of the  *)
(* plate without exit, and otherwise a record of that plate without exit;  *)
(* a plate found before a growth is found after it.                        *)
(***************************************************************************)
FindsOpen(ht, plate) ==
    LET found == getPlateLastLogWithoutExit(ht, plate)
        chain == getLogAtIndex(ht, plateHash(plate, getSize(ht)))
    IN  /\ found = 0 <=> OpenLogs(AllLogs(ht), plate) = {}
        /\ found # 0 => chain[found].plate = plate /\ IsOpen(chain[found])

C1_FindOpenEntry ==
    /\ \A p \in ParkIndexes :
           \A plate \in PlatesOf(AllLogs(getTable(headPark[p]))) \cup {PlateA} :
               FindsOpen(getTable(headPark[p]), plate)
    /\ Grew =>
           \A plate \in PlatesOf(AllLogs(lastOp.before)) :
               getPlateLastLogWithoutExit(lastOp.before, plate) # 0
                   => getPlateLastLogWithoutExit(LastTable, plate) # 0

\* A growth after which the vehicle that stays is still found, in a chain
\* that also holds finished stays of the frequent vehicle.
C1_Witness ==
    /\ Grew
    /\ getPlateLastLogWithoutExit(lastOp.before, PlateB) # 0
    /\ getPlateLastLogWithoutExit(LastTable, PlateB) # 0
    /\ \E k \in 1..Len(AllLogs(LastTable)) :
           AllLogs(LastTable)[k].plate = PlateA /\ ~IsOpen(AllLogs(LastTable)[k])

(***************************************************************************)
(* C2 (as claimed): whenever the last addLogToTable call took the append   *)
(* path, numElements / size <= 0.75 when it returns.                       *)
(***************************************************************************)
C2_AsClaimed ==
    lastOp.path = "append"
        => ~AboveThreshold(LastTable)

(***************************************************************************)
(* C2 (amended): whenever the last addLogToTable call took the append      *)
(* path, numElements / size <= 0.75 when it returns if the call did not    *)
(* grow the table, and numElements / size < 1 if it did.                   *)
(***************************************************************************)
C2_LoadAfterAppend ==
    lastOp.path = "append"
        => /\ ~Grew => ~AboveThreshold(LastTable)
           /\ Grew => LastTable.numElements < getSize(LastTable)

\* An append that grew the table and left it above the threshold.
C2_Witness ==
    /\ lastOp.path = "append"
    /\ Grew
    /\ AboveThreshold(LastTable)

(***************************************************************************)
(* C3: every record reachable from bucket i has plateHash(plate, size) = i *)
(* for the table's current size, and i is a bucket of the table.           *)
(***************************************************************************)
InOwnBucket(ht) ==
    \A i \in DOMAIN ht.logs :
        /\ i \in 0..(ht.size - 1)
        /\ \A k \in 1..Len(ht.logs[i]) :
               plateHash(ht.logs[i][k].plate, ht.size) = i

C3_BucketOfHash == \A p \in ParkIndexes : InOwnBucket(getTable(headPark[p]))

\* A grown table with records of several plates.
C3_Witness ==
    /\ Grew
    /\ getSize(LastTable) > INITIAL_SIZE
    /\ Cardinality(PlatesOf(AllLogs(LastTable))) >= 3

(***************************************************************************)
(* C4: a growth neither loses, duplicates nor alters records: every record *)
(* occurs as often in the table after the growth as before it, no node is  *)
(* linked twice, numElements is unchanged and counts the records of the    *)
(* new bucket array (none is left behind when the insert returns).         *)
(***************************************************************************)
C4_GrowthKeepsRecords ==
    Grew =>
        LET old == AllLogs(lastOp.before)
            new == AllLogs(LastTable)
        IN  /\ \A k \in 1..Len(old) :
                   Occurrences(new, old[k]) = Occurrences(old, old[k])
            /\ \A k \in 1..Len(new) : Occurrences(new, new[k]) = 1
            /\ Len(new) = Len(old)
            /\ LastTable.numElements = lastOp.before.numElements
            /\ LastTable.numElements = Len(new)

\* A growth that moved records of three plates, finished and open stays.
C4_Witness ==
    /\ Grew
    /\ Cardinality(PlatesOf(AllLogs(LastTable))) >= 3
    /\ \E k \in 1..Len(AllLogs(LastTable)) : ~IsOpen(AllLogs(LastTable)[k])
    /\ Len(AllLogs(LastTable)) >= 40

(***************************************************************************)
(* C5: each park's table holds at most one record without exit per plate.  *)
(***************************************************************************)
C5_OneOpenPerPlate ==
    \A p \in ParkIndexes :
        LET logs == AllLogs(getTable(headPark[p])) IN
        \A plate \in PlatesOf(logs) : Cardinality(OpenLogs(logs, plate)) <= 1

\* A vehicle that is back in a park it has left before, while another
\* park holds a record of it too.
C5_Witness ==
    \E p, q \in ParkIndexes :
        LET logs == AllLogs(getTable(headPark[p])) IN
        /\ p # q
        /\ Cardinality(OpenLogs(logs, PlateA)) = 1
        /\ \E k \in 1..Len(logs) : logs[k].plate = PlateA /\ ~IsOpen(logs[k])
        /\ PlateA \in PlatesOf(AllLogs(getTable(headPark[q])))

(***************************************************************************)
(* C6: the record that getPlateLastLogWithoutExit returns for a plate, if  *)
(* any, is the most recently inserted record of the plate among those      *)
(* without exit.                                                           *)
(***************************************************************************)
FindsLatestOpen(ht, plate) ==
    LET found == getPlateLastLogWithoutExit(ht, plate)
        chain == getLogAtIndex(ht, plateHash(plate, getSize(ht)))
        logs == AllLogs(ht)
    IN  found # 0 =>
            /\ chain[found].plate = plate
            /\ IsOpen(chain[found])
            /\ \A k \in OpenLogs(logs, plate) : logs[k].nth <= chain[found].nth

C7_GrowthKeepsOrder ==
    Grew =>
        \A i \in DOMAIN lastOp.before.logs :
            LET chain == lastOp.before.logs[i] IN
            \A a, b \in 1..Len(chain) :
                LET newIndex == plateHash(chain[a].plate, getSize(LastTable))
                    newChain == getLogAtIndex(LastTable, newIndex)
                IN  a < b /\ plateHash(chain[b].plate, getSize(LastTable)) = newIndex
                        => PositionIn(newChain, chain[a])
                               < PositionIn(newChain, chain[b])

(***************************************************************************)
(* C8 (as claimed): a chain holds the records of any one plate in the      *)
(* order in which they were inserted.                                      *)
(***************************************************************************)
C8_ChainInInsertionOrder ==
    \A p \in ParkIndexes :
        LET ht == getTable(headPark[p]) IN
        \A i \in DOMAIN ht.logs :
            \A a, b \in 1..Len(ht.logs[i]) :
                a < b /\ ht.logs[i][a].plate = ht.logs[i][b].plate
                    => ht.logs[i][a].nth < ht.logs[i][b].nth

(***************************************************************************)
(* C9 (as claimed): the table does not grow during the first 40 inserts,   *)
(* a 41st insert into a non-empty bucket grows it, and that insert is the  *)
(* first at which numElements / size exceeds 0.75.                         *)
(***************************************************************************)
C9_AsClaimed ==
    \A p \in ParkIndexes :
        LET ht == getTable(headPark[p]) IN
        /\ ht.numElements <= 40
               => getSize(ht) = INITIAL_SIZE
                  /\ ~AboveThreshold(ht)
        /\ ht.numElements = 41 /\ lastOp.out = "entry" /\ lastOp.path = "append"
               => Grew

(***************************************************************************)
(* C9 (amended): within the first 41 inserts the table grows exactly once, *)
(* to 107 buckets, during the first insert into a non-empty bucket that    *)
(* brings numElements to 40 or more: the 40th insert if its bucket is      *)
(* non-empty, and otherwise the 41st if its bucket is non-empty;           *)
(* numElements / size exceeds 0.75 from the 40th insert on until then.     *)
(***************************************************************************)
C9_FirstGrowth ==
    \A p \in ParkIndexes :
        LET ht == getTable(headPark[p])
            inserted == lastOp.out = "entry" /\ lastOp.name = headPark[p].name
        IN  /\ ht.numElements < 40
                => getSize(ht) = INITIAL_SIZE
                   /\ ~AboveThreshold(ht)
            /\ ht.numElements = 40 /\ inserted
                => (Grew <=> lastOp.path = "append")
            /\ ht.numElements = 40 /\ getSize(ht) = INITIAL_SIZE
                => AboveThreshold(ht)
            /\ ht.numElements = 41 /\ inserted /\ lastOp.path = "append"
                => /\ getSize(ht) = NewSize(INITIAL_SIZE)
                   /\ Grew => getSize(lastOp.before) = INITIAL_SIZE
            /\ ht.numElements \in {40, 41}
                => getSize(ht) \in {INITIAL_SIZE, NewSize(INITIAL_SIZE)}

\* The 41st insert grows the table: the 40th went to an empty bucket.
C9_Witness ==
    /\ Grew
    /\ lastOp.path = "append"
    /\ LastTable.numElements = 41
    /\ getSize(LastTable) = 107

(***************************************************************************)
(* C10: every growth sets the bucket count to nearestPrime(2 * old + 1),   *)
(* which is greater than the old count; no command decreases the bucket    *)
(* count of a park's table; from 53 the sizes are 107, 223, 449.           *)
(***************************************************************************)
SizesGrow ==
    /\ Grew => /\ getSize(LastTable) = nearestPrime(2 * getSize(lastOp.before) + 1)
               /\ getSize(LastTable) > getSize(lastOp.before)
    /\ \A p \in ParkIndexes :
           getSize(getTable(headPark[p])) \in {53, 107, 223, 449}
    /\ NewSize(53) = 107 /\ NewSize(107) = 223 /\ NewSize(223) = 449

SizeNeverDecreases ==
    \A p \in ParkIndexes :
        getPark(headPark', headPark[p].name) # 0
            => getSize(getTable(headPark'[getPark(headPark', headPark[p].name)]))
                   >= getSize(getTable(headPark[p]))

C10_SizeSequence == []SizesGrow /\ [][SizeNeverDecreases]_vars

\* The second growth: from 107 to 223 buckets.
C10_Witness ==
    /\ Grew
    /\ getSize(lastOp.before) = 107
    /\ getSize(LastTable) = 223

(***************************************************************************)
(* What the claims on mergeSort speak of.                                  *)
(***************************************************************************)
\* The last step was a call of mergeSort with this key.
Sorted(sortBy) == lastOp.cmd = "mergeSort" /\ lastOp.sortBy = sortBy

\* s is before t in byte-wise order.
ByteLess(s, t) ==
    \E i \in 1..Len(t) :
        /\ i - 1 <= Len(s)
        /\ \A j \in 1..(i - 1) : s[j] = t[j]
        /\ (i > Len(s) \/ s[i] < t[i])

\* t1 is before t2: year, month, day, hour and minute in dictionary order.
Earlier(t1, t2) ==
    LET a == <<t1.year, t1.month, t1.day, t1.hour, t1.minute>>
        b == <<t2.year, t2.month, t2.day, t2.hour, t2.minute>>
    IN  \E i \in 1..5 : a[i] < b[i] /\ \A j \in 1..(i - 1) : a[j] = b[j]

(***************************************************************************)
(* C11: the list that mergeSort leaves for key 'e' is ascending by park    *)
(* name (byte-wise) and, among equal park names, by entry timestamp.       *)
(***************************************************************************)
C11_SortedByEntry ==
    Sorted("e") =>
        \A k \in 1..(Len(lastOp.head) - 1) :
            LET log == lastOp.head[k]
                next == lastOp.head[k + 1]
            IN  \/ ByteLess(log.parkName, next.parkName)
                \/ /\ log.parkName = next.parkName
                   /\ ~Earlier(next.entryTimestamp, log.entryTimestamp)

\* Three records out of order, by name and by entry time, were sorted.
C11_Witness ==
    /\ Sorted("e")
    /\ lastOp.was = "none"
    /\ Len(lastOp.before) = 3
    /\ lastOp.before[1].parkName = ParkS
    /\ lastOp.before[2].parkName = ParkN /\ lastOp.before[2].entryTimestamp = T2
    /\ lastOp.before[3].parkName = ParkN /\ lastOp.before[3].entryTimestamp = T1
    /\ lastOp.head = <<lastOp.before[3], lastOp.before[2], lastOp.before[1]>>

(***************************************************************************)
(* C12 (as claimed): the list that mergeSort leaves for a key other than   *)
(* 'e' is ascending by exit timestamp and, among equal exit timestamps, by *)
(* park name.                                                              *)
(***************************************************************************)
C12_SortedByExit ==
    Sorted("s") =>
        \A k \in 1..(Len(lastOp.head) - 1) :
            LET log == lastOp.head[k]
                next == lastOp.head[k + 1]
            IN  \/ Earlier(log.exitTimestamp, next.exitTimestamp)
                \/ /\ ~Earlier(next.exitTimestamp, log.exitTimestamp)
                   /\ ~ByteLess(next.parkName, log.parkName)

(***************************************************************************)
(* C13: for either key the list that mergeSort leaves holds every node of  *)
(* the list it received exactly once, with every field as it was, and no   *)
(* other node.                                                             *)
(***************************************************************************)
C13_SortKeepsNodes ==
    lastOp.cmd = "mergeSort" =>
        /\ Len(lastOp.head) = Len(lastOp.before)
        /\ \A k \in 1..Len(lastOp.before) :
               Occurrences(lastOp.head, lastOp.before[k]) = 1
        /\ \A k \in 1..Len(lastOp.head) :
               Occurrences(lastOp.before, lastOp.head[k]) = 1

\* A list of three records was reordered by the exit key.
C13_Witness ==
    /\ Sorted("s")
    /\ Len(lastOp.before) = 3
    /\ lastOp.head # lastOp.before
    /\ lastOp.head[1] = lastOp.before[3]

(***************************************************************************)
(* C14 (as claimed): mergeSort is stable: two records with the same park   *)
(* name and the same timestamp of the chosen key stay in the order they    *)
(* had in the list that mergeSort received.                                *)
(***************************************************************************)
SameKeys(log1, log2, sortBy) ==
    /\ log1.parkName = log2.parkName
    /\ IF sortBy = "e" THEN log1.entryTimestamp = log2.entryTimestamp
                       ELSE log1.exitTimestamp = log2.exitTimestamp

C14_Stable ==
    lastOp.cmd = "mergeSort" =>
        \A a, b \in 1..Len(lastOp.before) :
            a < b /\ SameKeys(lastOp.before[a], lastOp.before[b], lastOp.sortBy)
                => PositionIn(lastOp.head, lastOp.before[a])
                       < PositionIn(lastOp.head, lastOp.before[b])

(***************************************************************************)
(* C15 (as claimed): mergeSort with the exit key leaves a list that it has *)
(* sorted by the exit key as it is: same nodes, same order.                *)
(***************************************************************************)
C15_Idempotent ==
    Sorted("s") /\ lastOp.was = "s" => lastOp.head = lastOp.before

(***************************************************************************)
(* C16: for every n of 0 .. 10000, nearestPrime(n) is a prime number and   *)
(* is at least n; nearestPrime(1) = 2 and nearestPrime(53) = 53.           *)
(***************************************************************************)
\* No number of 2 .. MaxPrimeArg \div 50 other than p divides p; the squares
\* of the greater numbers exceed every value that nearestPrime returns here.
IsPrimeNumber(p) ==
    /\ p > 1
    /\ (MaxPrimeArg \div 50 + 1) * (MaxPrimeArg \div 50 + 1) > p
    /\ \A d \in 2..(MaxPrimeArg \div 50) : d < p => p % d # 0

C16_PrimeAtLeastN ==
    lastOp.cmd = "nearestPrime" =>
        /\ IsPrimeNumber(lastOp.out)
        /\ lastOp.out >= lastOp.n
        /\ lastOp.n = 1 => lastOp.out = 2
        /\ lastOp.n = 53 => lastOp.out = 53

\* The greatest argument of the claim, an even number, six below its prime.
C16_Witness ==
    /\ lastOp.cmd = "nearestPrime"
    /\ lastOp.n = 10000
    /\ lastOp.out = 10007

(***************************************************************************)
(* C17: getLogAtIndex returns NULL for a NULL table and for every index    *)
(* that is not below the size, and the head of the bucket otherwise; the   *)
(* scan of the indices 0 .. getSize(ht) - 1 meets every stored record      *)
(* exactly once and nothing else.                                          *)
(***************************************************************************)
\* The records linked from the bucket array, whatever the index.
StoredLogs(ht) ==
    UNION {{ht.logs[i][k] : k \in 1..Len(ht.logs[i])} : i \in DOMAIN ht.logs}

ScanMeetsAll(ht) ==
    LET scan == VisitOrder(ht, 0, getSize(ht) - 1) IN
    /\ \A i \in 0..(2 * getSize(ht)) :
           getLogAtIndex(ht, i) =
               IF i < ht.size /\ i \in DOMAIN ht.logs THEN ht.logs[i] ELSE <<>>
    /\ \A log \in StoredLogs(ht) : Occurrences(scan, log) = 1
    /\ \A k \in 1..Len(scan) : scan[k] \in StoredLogs(ht)
    /\ Len(scan) = ht.numElements

C17_BucketHeadOrNull ==
    /\ \A i \in 0..INITIAL_SIZE : getLogAtIndex(<<>>, i) = <<>>
    /\ \A p \in ParkIndexes : ScanMeetsAll(getTable(headPark[p]))

\* A grown table with records in a bucket that the first array did not have.
C17_Witness ==
    /\ getSize(LastTable) > INITIAL_SIZE
    /\ \E i \in INITIAL_SIZE..(getSize(LastTable) - 1) :
           Len(getLogAtIndex(LastTable, i)) >= 40
    /\ getLogAtIndex(LastTable, getSize(LastTable)) = <<>>

(***************************************************************************)
(* C18: plateHash(plate, size) is the value obtained by starting at 5381   *)
(* and replacing hash by (hash * 33 + character) modulo 2^32 for each      *)
(* character other than '-', taken modulo size at the end; it is in        *)
(* 0 .. size - 1, and the hyphens of a plate do not change it.             *)
(***************************************************************************)
\* The same recurrence on four bytes, least significant first.
RefStep(hash, c) ==
    LET v1 == hash[1] * 33 + c
        v2 == hash[2] * 33 + v1 \div 256
        v3 == hash[3] * 33 + v2 \div 256
        v4 == hash[4] * 33 + v3 \div 256
    IN  <<v1 % 256, v2 % 256, v3 % 256, v4 % 256>>

RECURSIVE RefHash(_, _)
RefHash(characters, hash) ==
    IF characters = <<>> THEN hash
    ELSE RefHash(Tail(characters), RefStep(hash, Head(characters)))

RefModulo(hash, size) ==
    LET m4 == hash[4] % size
        m3 == (m4 * 256 + hash[3]) % size
        m2 == (m3 * 256 + hash[2]) % size
    IN  (m2 * 256 + hash[1]) % size

WithoutHyphens(plate) == SelectSeq(plate, LAMBDA c : c # 45)

C18_HashIsDjb2 ==
    lastOp.cmd = "plateHash" =>
        /\ lastOp.out =
               RefModulo(RefHash(WithoutHyphens(lastOp.plate),
                                 <<5381 % 256, 5381 \div 256, 0, 0>>),
                         lastOp.size)
        /\ lastOp.out \in 0..(lastOp.size - 1)
        /\ plateHash(WithoutHyphens(lastOp.plate), lastOp.size) = lastOp.out

\* "ZZ-AA-ZZ" in the grown table: the sum passes 2^32 on the way.
C18_Witness ==
    /\ lastOp.cmd = "plateHash"
    /\ lastOp.plate = <<90, 90, 45, 65, 65, 45, 90, 90>>
    /\ lastOp.size = 107
    /\ lastOp.out = 66

(***************************************************************************)
(* C19: an insert into an empty bucket makes the record the only node of   *)
(* that bucket, adds one to numElements, leaves the other buckets and the  *)
(* bucket count as they were, whatever numElements / size becomes; a       *)
(* growth happens only in an insert that appends to a non-empty bucket.    *)
(***************************************************************************)
HeadInsert(old, new) ==
    /\ getSize(new) = getSize(old)
    /\ new.numElements = old.numElements + 1
    /\ \E i \in DOMAIN new.logs :
           /\ getLogAtIndex(old, i) = <<>>
           /\ Len(new.logs[i]) = 1
           /\ \A j \in DOMAIN new.logs \ {i} : new.logs[j] = getLogAtIndex(old, j)
           /\ \A j \in DOMAIN old.logs : old.logs[j] = getLogAtIndex(new, j)

GrowthOnlyOnAppend ==
    \A parkName \in {ParkN, ParkS} :
        /\ lastOp'.out = "entry" /\ lastOp'.name = parkName /\ lastOp'.path = "head"
               => /\ HeadInsert(TableOf(parkName), TableOf(parkName)')
                  /\ ~lastOp'.resized
        /\ getPark(headPark, parkName) # 0 /\ getPark(headPark', parkName) # 0
             /\ getSize(TableOf(parkName)') # getSize(TableOf(parkName))
               => /\ lastOp'.out = "entry" /\ lastOp'.name = parkName
                  /\ lastOp'.path = "append" /\ lastOp'.resized

C19_HeadInsertNeverGrows == [][GrowthOnlyOnAppend]_vars

\* An insert into an empty bucket that left 80 records in 53 buckets.
C19_Witness ==
    /\ lastOp.out = "entry"
    /\ lastOp.path = "head"
    /\ getSize(LastTable) = INITIAL_SIZE
    /\ LastTable.numElements = 80

(***************************************************************************)
(* C20: while a park stays in the list, every record of its table stays in *)
(* the table, with its plate, park name and entry timestamp, across 'e',   *)
(* 's', 'v' and 'f' commands; records leave only with their park.          *)
(***************************************************************************)
SameNode(log1, log2) ==
    /\ log1.plate = log2.plate
    /\ log1.nth = log2.nth
    /\ log1.parkName = log2.parkName
    /\ log1.entryTimestamp = log2.entryTimestamp

KeepsLogs(old, new) ==
    /\ \A log1 \in StoredLogs(old) :
           \E log2 \in StoredLogs(new) : SameNode(log1, log2)
    /\ Cardinality(StoredLogs(new)) >= Cardinality(StoredLogs(old))

NoLogRemoved ==
    \A parkName \in {ParkN, ParkS} :
        /\ getPark(headPark, parkName) # 0 /\ getPark(headPark', parkName) # 0
               => KeepsLogs(TableOf(parkName), TableOf(parkName)')
        /\ lastOp'.cmd \in {"e", "s", "v", "f"}
               => getPark(headPark', parkName) = getPark(headPark, parkName)

C20_RecordsStay == [][NoLogRemoved]_vars

\* A billing query that printed two finished stays of a park that holds them.
C20_Witness ==
    /\ lastOp.cmd = "f"
    /\ lastOp.out = "printed"
    /\ Len(lastOp.logs) = 2
    /\ \E p \in ParkIndexes : Cardinality(StoredLogs(getTable(headPark[p]))) = 2

(***************************************************************************)
(* C21: a record in a table keeps its plate, park name and entry           *)
(* timestamp; its exit timestamp changes only from unset to the timestamp  *)
(* of an accepted 's' command on its park, one record per command, and     *)
(* never changes once set.                                                 *)
(***************************************************************************)
ExitWrittenOnce(parkName) ==
    LET old == StoredLogs(TableOf(parkName))
        new == StoredLogs(TableOf(parkName)')
        written == {log1 \in old :
                       \E log2 \in new : /\ SameNode(log1, log2)
                                         /\ log2.exitTimestamp # log1.exitTimestamp}
    IN  /\ \A log1 \in old : \E log2 \in new : SameNode(log1, log2)
        /\ \A log1 \in written :
               /\ IsOpen(log1)
               /\ lastOp'.cmd = "s" /\ lastOp'.out = "exit"
               /\ lastOp'.name = parkName
               /\ \E log2 \in new : /\ SameNode(log1, log2)
                                     /\ log2.exitTimestamp = lastTimestamp'
                                     /\ ~IsOpen(log2)
        /\ Cardinality(written) <= 1
        /\ lastOp'.cmd = "s" /\ lastOp'.out = "exit" /\ lastOp'.name = parkName
               => Cardinality(written) = 1

RecordMutatedOnce ==
    \A parkName \in {ParkN, ParkS} :
        getPark(headPark, parkName) # 0 /\ getPark(headPark', parkName) # 0
            => ExitWrittenOnce(parkName)

C21_RecordMutatedOnce == [][RecordMutatedOnce]_vars

\* A second stay in a park ended later than the first, which is as it was.
C21_Witness ==
    /\ lastOp.cmd = "s" /\ lastOp.out = "exit"
    /\ \E log1, log2 \in StoredLogs(LastTable) :
           /\ log1.plate = log2.plate
           /\ log1.nth = 1 /\ log1.exitTimestamp = T1
           /\ log2.nth = 2 /\ log2.entryTimestamp = T1 /\ log2.exitTimestamp = T2

(***************************************************************************)
(* C22 (as claimed): an accepted 's' command registers an exit: it creates *)
(* no record, and the vehicle had a record without exit in the named park. *)
(***************************************************************************)
C22_ExitOnlyWhereParked ==
    lastOp.cmd = "s" /\ lastOp.out \in {"entry", "exit"}
        => /\ lastOp.out = "exit"
           /\ lastOp.path = "none"

(***************************************************************************)
(* C23: lastTimestamp never decreases; a rejected command leaves it as it  *)
(* is; an accepted 'e' or 's' sets it to the command's timestamp, which is *)
(* not earlier than the one before and is the entry (for an entry) or the  *)
(* exit (for an exit) of a record of the named park.                       *)
(***************************************************************************)
AcceptedES(op) == op.cmd \in {"e", "s"} /\ op.out \in {"entry", "exit"}

TimestampStep ==
    /\ ~Earlier(lastTimestamp', lastTimestamp)
    /\ ~AcceptedES(lastOp') => lastTimestamp' = lastTimestamp
    /\ AcceptedES(lastOp') =>
           \E parkName \in {ParkN, ParkS} :
               /\ parkName = lastOp'.name
               /\ \E log \in StoredLogs(TableOf(parkName)') :
                      IF lastOp'.out = "entry"
                      THEN log.entryTimestamp = lastTimestamp' /\ IsOpen(log)
                      ELSE log.exitTimestamp = lastTimestamp'

C23_TimestampsNonDecreasing == [][TimestampStep]_vars

\* A command rejected for its date after an entry at 08:00 and an exit at
\* 08:01.
C23_Witness ==
    /\ lastOp.out = "invalid date"
    /\ lastTimestamp = T2
    /\ \E p \in ParkIndexes : \E log \in StoredLogs(getTable(headPark[p])) :
           log.entryTimestamp = T1 /\ log.exitTimestamp = T2

(***************************************************************************)
(* C24: the list that getPlateLogs returns for a plate holds one copy of   *)
(* every record of the plate in the table of any park and nothing else,    *)
(* and is ascending by park name and, in a park, by entry timestamp.       *)
(***************************************************************************)
IsCopyOf(copy, log, park) ==
    /\ copy.plate = log.plate
    /\ copy.parkName = park.name
    /\ copy.nth = log.nth
    /\ copy.entryTimestamp = log.entryTimestamp
    /\ copy.exitTimestamp = log.exitTimestamp

FullHistory(parks, plate, logs) ==
    /\ \A p \in 1..Len(parks) :
           \A log \in StoredLogs(getTable(parks[p])) :
               log.plate = plate =>
                   Cardinality({k \in 1..Len(logs) :
                                   IsCopyOf(logs[k], log, parks[p])}) = 1
    /\ \A k \in 1..Len(logs) :
           /\ logs[k].plate = plate
           /\ \E p \in 1..Len(parks) :
                  \E log \in StoredLogs(getTable(parks[p])) :
                      IsCopyOf(logs[k], log, parks[p])
    /\ \A i, j \in 1..Len(logs) :
           i < j =>
               \/ ByteLess(logs[i].parkName, logs[j].parkName)
               \/ /\ logs[i].parkName = logs[j].parkName
                  /\ ~Earlier(logs[j].entryTimestamp, logs[i].entryTimestamp)

C24_PlateHistory ==
    \A plate \in {PlateA, PlateB} :
        FullHistory(headPark, plate, getPlateLogs(headPark, plate))

\* The 'v' command on a vehicle with records in both parks, park S the
\* first of the list, after the table of N has grown, with entries at 08:00
\* and at 08:01 and a record of another vehicle in the same bucket.
C24_Witness ==
    /\ lastOp.cmd = "v"
    /\ lastOp.out = "printed"
    /\ Len(headPark) = 2
    /\ headPark[1].name = ParkS
    /\ getSize(TableOf(ParkN)) > INITIAL_SIZE
    /\ \E i, j, k \in 1..Len(lastOp.logs) :
           /\ lastOp.logs[i].parkName = ParkN
           /\ lastOp.logs[i].entryTimestamp = T1
           /\ lastOp.logs[j].parkName = ParkN
           /\ lastOp.logs[j].entryTimestamp = T2
           /\ lastOp.logs[k].parkName = ParkS
    /\ \E log \in StoredLogs(TableOf(ParkN)) :
           /\ log.plate = PlateB
           /\ plateHash(PlateB, getSize(TableOf(ParkN)))
                  = plateHash(PlateA, getSize(TableOf(ParkN)))

(***************************************************************************)
(* C25: the list from which showParkBilling prints holds one copy of every *)
(* record of the park with an exit (on the given date, when a date is      *)
(* given) and nothing else, in non-decreasing order of exit timestamp.     *)
(***************************************************************************)
SameDay(t1, t2) == t1.day = t2.day /\ t1.month = t2.month /\ t1.year = t2.year

Billed(park, timestamp, logs) ==
    LET due == {log \in StoredLogs(getTable(park)) :
                   /\ log.exitTimestamp # INITIAL_TIMESTAMP
                   /\ \/ timestamp = INITIAL_TIMESTAMP
                      \/ SameDay(log.exitTimestamp, timestamp)}
    IN  /\ \A log \in due :
               Cardinality({k \in 1..Len(logs) : IsCopyOf(logs[k], log, park)}) = 1
        /\ \A k \in 1..Len(logs) : \E log \in due : IsCopyOf(logs[k], log, park)
        /\ \A i, j \in 1..Len(logs) :
               i < j => ~Earlier(logs[j].exitTimestamp, logs[i].exitTimestamp)

BillDates ==
    {INITIAL_TIMESTAMP, newTimestamp(T1.day, T1.month, T1.year, 0, 0),
     newTimestamp(T3.day, T3.month, T3.year, 0, 0)}

C25_BillingList ==
    \A p \in ParkIndexes : \A timestamp \in BillDates :
        Billed(headPark[p], timestamp, showParkBilling(headPark[p], timestamp))

\* The 'f' command for the first day, on a park with three finished stays,
\* one of them ended on the second day: two bills, the first of them for a
\* record that the scan of the buckets meets last.
C25_Witness ==
    /\ lastOp.cmd = "f"
    /\ lastOp.out = "printed"
    /\ Len(lastOp.logs) = 2
    /\ Earlier(lastOp.logs[1].exitTimestamp, lastOp.logs[2].exitTimestamp)
    /\ plateHash(lastOp.logs[1].plate, INITIAL_SIZE)
           > plateHash(lastOp.logs[2].plate, INITIAL_SIZE)
    /\ Cardinality({log \in StoredLogs(TableOf(ParkN)) : ~IsOpen(log)}) = 3

(***************************************************************************)
(* C26: the number of buckets of every table is a prime number: 53 for a   *)
(* new table, and a prime number after every growth.                       *)
(***************************************************************************)
C26_PrimeBucketCount ==
    /\ IsPrimeNumber(getSize(newHashtable))
    /\ \A p \in ParkIndexes : IsPrimeNumber(getSize(getTable(headPark[p])))

\* A table that has grown twice.
C26_Witness ==
    /\ Grew
    /\ getSize(lastOp.before) > INITIAL_SIZE
    /\ getSize(LastTable) > getSize(lastOp.before)

(***************************************************************************)
(* C27 (as claimed): for every n of 0 .. MaxPrimeArg, nearestPrime(n) is   *)
(* the smallest prime number that is not below n; it is 2 for n <= 1.      *)
(***************************************************************************)
C27_SmallestPrime ==
    lastOp.cmd = "nearestPrime" =>
        /\ IsPrimeNumber(lastOp.out)
        /\ lastOp.out >= lastOp.n
        /\ \A q \in lastOp.n..(lastOp.out - 1) : ~IsPrimeNumber(q)
        /\ lastOp.n <= 1 => lastOp.out = 2

(***************************************************************************)
(* C28 (as claimed): a plate has a record without exit in at most one park *)
(* at any time.                                                            *)
(***************************************************************************)
ParksHolding(plate) ==
    {p \in ParkIndexes :
        \E log \in StoredLogs(getTable(headPark[p])) :
            log.plate = plate /\ IsOpen(log)}

C28_OpenInOnePark ==
    \A plate \in {PlateA, PlateD} : Cardinality(ParksHolding(plate)) <= 1

(***************************************************************************)
(* C29 (as claimed): 0 <= availableSlots <= capacity for every park.       *)
(***************************************************************************)
C29_SlotsWithinCapacity ==
    \A p \in ParkIndexes :
        /\ 0 <= headPark[p].availableSlots
        /\ headPark[p].availableSlots <= headPark[p].capacity

(***************************************************************************)
(* C30: the available slots of every park are its capacity less the number *)
(* of records without exit in its table.                                   *)
(***************************************************************************)
VehiclesIn(park) ==
    Cardinality({log \in StoredLogs(getTable(park)) : IsOpen(log)})

C30_SlotsCountOpenRecords ==
    \A p \in ParkIndexes :
        headPark[p].availableSlots = headPark[p].capacity - VehiclesIn(headPark[p])

\* After an entry: a full park with a finished stay and a vehicle inside,
\* beside a park that is empty again.
C30_Witness ==
    /\ lastOp.cmd = "e"
    /\ lastOp.out = "entry"
    /\ \E p, q \in ParkIndexes :
           /\ VehiclesIn(headPark[p]) = 1
           /\ getTable(headPark[p]).numElements = 2
           /\ VehiclesIn(headPark[q]) = 0
           /\ getTable(headPark[q]).numElements = 1

(***************************************************************************)
(* C31: numElements of every table is the number of records linked from    *)
(* its buckets, and while a park stays in the list the numElements of its  *)
(* table never decreases.                                                  *)
(***************************************************************************)
LinkedNodes(ht) ==
    UNION {{<<i, k>> : k \in 1..Len(ht.logs[i])} : i \in DOMAIN ht.logs}

CountsItsRecords(ht) == ht.numElements = Cardinality(LinkedNodes(ht))

ElementsStep ==
    /\ CountsItsRecords(TableOf(ParkN))
    /\ CountsItsRecords(TableOf(ParkN)')
    /\ getPark(headPark, ParkN) # 0 /\ getPark(headPark', ParkN) # 0
           => TableOf(ParkN)'.numElements >= TableOf(ParkN).numElements

C31_ElementsCounted == [][ElementsStep]_vars

\* A table of more than 80 records that has grown twice, after an exit.
C31_Witness ==
    /\ lastOp.cmd = "s"
    /\ lastOp.out = "exit"
    /\ TableOf(ParkN).numElements > 80
    /\ getSize(TableOf(ParkN)) > 2 * INITIAL_SIZE + 1

(***************************************************************************)
(* C32: every record of every table has an entry timestamp that is not the *)
(* initial one, and an exit timestamp, when it has one, that is not before *)
(* its entry timestamp.  The initial timestamp is no valid timestamp.      *)
(***************************************************************************)
C32_EntryBeforeExit ==
    /\ ~validTimestamp(INITIAL_TIMESTAMP)
    /\ \A p \in ParkIndexes :
           \A log \in StoredLogs(getTable(headPark[p])) :
               /\ log.entryTimestamp # INITIAL_TIMESTAMP
               /\ ~IsOpen(log)
                      => ~Earlier(log.exitTimestamp, log.entryTimestamp)

\* After an exit: a stay from 08:00 to 08:01 and a stay that begins and
\* ends at 08:01.
C32_Witness ==
    /\ lastOp.cmd = "s"
    /\ lastOp.out = "exit"
    /\ \E p, q \in ParkIndexes :
           /\ \E log \in StoredLogs(getTable(headPark[p])) :
                  log.entryTimestamp = T1 /\ log.exitTimestamp = T2
           /\ \E log \in StoredLogs(getTable(headPark[q])) :
                  log.entryTimestamp = T2 /\ log.exitTimestamp = T2

(***************************************************************************)
(* C33: the checks of an 'e' or 's' command are made in the order unknown  *)
(* park, full park (entry), invalid plate, vehicle in a park (entry) or in *)
(* no park (exit), invalid or too early timestamp, and the first that      *)
(* fails is the one reported; a rejected command leaves the parks, their   *)
(* tables and slots, and lastTimestamp as they were.                       *)
(***************************************************************************)
Rejections ==
    {"no such parking", "parking is full", "invalid licence plate",
     "invalid vehicle entry", "invalid vehicle exit", "invalid date"}

FirstFailing(command, parkName, plate, timestamp) ==
    LET named == {p \in ParkIndexes : headPark[p].name = parkName} IN
    IF named = {} THEN "no such parking"
    ELSE IF command = "e" /\ \A p \in named : headPark[p].availableSlots <= 0
         THEN "parking is full"
    ELSE IF ~validPlate(plate) THEN "invalid licence plate"
    ELSE IF command = "e" /\ ParksHolding(plate) # {}
         THEN "invalid vehicle entry"
    ELSE IF command = "s" /\ ParksHolding(plate) = {}
         THEN "invalid vehicle exit"
    ELSE IF ~validTimestamp(timestamp) \/ Earlier(timestamp, lastTimestamp)
         THEN "invalid date"
    ELSE "valid"

ChecksInOrder ==
    \A command \in {"e", "s"}, parkName \in {ParkN, ParkS},
       plate \in {PlateA, PlateBad}, timestamp \in {T1, T2, TBad} :
        valid_inputs_commands_e_s(command, parkName, plate, timestamp)
            = FirstFailing(command, parkName, plate, timestamp)

RejectedStep ==
    lastOp'.cmd \in {"e", "s"} /\ lastOp'.out \notin {"entry", "exit"}
        => /\ lastOp'.out \in Rejections
           /\ headPark' = headPark
           /\ lastTimestamp' = lastTimestamp

C33_RejectionChangesNothing == []ChecksInOrder /\ [][RejectedStep]_vars

\* An entry rejected for its plate, in a state where the plate's check is
\* neither the first nor the last that fails: one park is full, the other
\* has room, and the clock is past 08:00.
C33_Witness ==
    /\ lastOp.cmd = "e"
    /\ lastOp.out = "invalid licence plate"
    /\ lastTimestamp = T2
    /\ FirstFailing("e", ParkN, PlateBad, T1) = "invalid licence plate"
    /\ FirstFailing("e", ParkS, PlateBad, T1) = "parking is full"
    /\ FirstFailing("e", ParkN, PlateA, T1) = "invalid vehicle entry"
    /\ FirstFailing("s", ParkN, PlateA, T1) = "invalid date"
    /\ FirstFailing("s", ParkN, PlateA, TBad) = "invalid date"
    /\ FirstFailing("s", ParkN, PlateA, T2) = "valid"

(***************************************************************************)
(* C34: a 'v' or 'f' command leaves the list of parks, every table (its    *)
(* buckets, the order of its chains, its size and numElements), every      *)
(* record's timestamps, every park's availableSlots and lastTimestamp as   *)
(* they were.                                                              *)
(***************************************************************************)
QueryStep ==
    lastOp'.cmd \in {"v", "f"}
        => /\ headPark' = headPark
           /\ lastTimestamp' = lastTimestamp

C34_QueriesChangeNothing == [][QueryStep]_vars

\* Two finished stays of a park billed, the one that left first stored
\* behind the other.
C34_Witness ==
    /\ lastOp.cmd = "f"
    /\ lastOp.out = "printed"
    /\ Len(lastOp.logs) = 2
    /\ \E p \in ParkIndexes :
           LET logs == AllLogs(getTable(headPark[p])) IN
           /\ Len(logs) = 2
           /\ Earlier(logs[2].exitTimestamp, logs[1].exitTimestamp)

(***************************************************************************)
(* C35: the list holds at most MAX_PARKS parks, of pairwise distinct       *)
(* names.  addPark reports the first of: name in the list, capacity <= 0,  *)
(* invalid tariff, MAX_PARKS parks in the list; a 'p' command that it      *)
(* rejects leaves the list as it was, and one that it accepts appends the  *)
(* new park, with all its slots free and an empty table, at the end.       *)
(***************************************************************************)
FirstReason(parkName, capacity, tariff) ==
    IF \E p \in ParkIndexes : headPark[p].name = parkName
    THEN "parking already exists"
    ELSE IF capacity <= 0 THEN "invalid capacity"
    ELSE IF ~validTariff(tariff) THEN "invalid cost"
    ELSE IF Len(headPark) >= 20 THEN "too many parks"
    ELSE "added"

ParkListSound ==
    /\ Len(headPark) <= 20
    /\ \A p, q \in ParkIndexes : headPark[p].name = headPark[q].name => p = q
    /\ \A parkName \in {NameOf(k) : k \in 1..MaxParkNames},
          capacity \in {0, 1}, value15 \in {10, 30} :
           addPark(headPark, newPark(parkName, capacity, newTariff(value15, 20, 100)))
               = FirstReason(parkName, capacity, newTariff(value15, 20, 100))

ParkStep ==
    lastOp'.cmd = "p" =>
        IF lastOp'.out = "added"
        THEN /\ Len(headPark') = Len(headPark) + 1
             /\ SubSeq(headPark', 1, Len(headPark)) = headPark
             /\ LET park == headPark'[Len(headPark')] IN
                /\ \A p \in ParkIndexes : headPark[p].name # park.name
                /\ park.capacity > 0
                /\ park.availableSlots = park.capacity
                /\ validTariff(park.tariff)
                /\ getTable(park) = newHashtable
        ELSE headPark' = headPark

C35_ParkList == []ParkListSound /\ [][ParkStep]_vars

\* A valid park with a new name rejected because the list holds 20 parks.
C35_Witness ==
    /\ lastOp.cmd = "p"
    /\ lastOp.out = "too many parks"
    /\ Len(headPark) = 20
    /\ headPark[1].name = NameOf(1)
    /\ headPark[20].name = NameOf(20)

(***************************************************************************)
(* C36: an 'r' command that names a park of the list takes that park, and  *)
(* its table with it, out of the list and leaves the other parks, their    *)
(* order, tables and slots as they were; one that names no park of the     *)
(* list changes nothing.  A vehicle whose only record without exit was in  *)
(* the removed park is then in no park, and plateInAnyPark, the test that  *)
(* an entry must pass, no longer finds it.                                 *)
(***************************************************************************)
RemovedAt(k) ==
    /\ Len(headPark') = Len(headPark) - 1
    /\ \A p \in ParkIndexes :
           /\ p < k => headPark'[p] = headPark[p]
           /\ p > k => headPark'[p - 1] = headPark[p]
    /\ \A p \in 1..Len(headPark') : headPark'[p].name # headPark[k].name
    /\ ParksHolding(PlateA) = {k}
           => /\ \A p \in 1..Len(headPark') :
                     \A log \in StoredLogs(getTable(headPark'[p])) :
                         log.plate = PlateA => ~IsOpen(log)
              /\ ~plateInAnyPark(headPark', PlateA)

RemovalStep ==
    lastOp'.cmd = "r" =>
        /\ lastTimestamp' = lastTimestamp
        /\ lastOp'.out \in {"removed", "no such parking"}
        /\ lastOp'.out = "removed" => \E k \in ParkIndexes : RemovedAt(k)
        /\ lastOp'.out = "no such parking" => headPark' = headPark
        /\ Len(headPark') = Len(headPark) => lastOp'.out = "no such parking"

C36_RemovalTakesOnePark == [][RemovalStep]_vars

\* After the removal of the park in which the vehicle was: two parks are
\* left, the first with a finished stay, and no record of the list carries
\* the time of the vehicle's last entry.
C36_Witness ==
    /\ lastOp.cmd = "r"
    /\ lastOp.out = "removed"
    /\ Len(headPark) = 2
    /\ headPark[1].name = ParkS
    /\ headPark[2].name = ParkN
    /\ getTable(headPark[1]).numElements = 1
    /\ getTable(headPark[2]).numElements = 0
    /\ ParksHolding(PlateA) = {}
    /\ lastTimestamp = T2
    /\ \A log \in StoredLogs(getTable(headPark[1])) : log.exitTimestamp = T1

(***************************************************************************)
(* C37: split cuts every list of two or more nodes into two halves, both   *)
(* with nodes and with lengths that differ by at most one, so that the     *)
(* lists mergeSort recurses on are shorter than its own and it returns;    *)
(* and nearestPrime, called by a growth, returns a prime number above the  *)
(* number of buckets the table has.  The longer lists and the growths do   *)
(* not depend on the state: they are evaluated where the list is empty.    *)
(***************************************************************************)
MaxSplitLen == 40
MaxGrowths == 6

SplitInHalves(head) ==
    LET halves == split(head)
        difference == Len(halves.firstHalf) - Len(halves.secondHalf)
    IN  /\ halves.firstHalf \o halves.secondHalf = head
        /\ Len(halves.firstHalf) >= 1
        /\ Len(halves.secondHalf) >= 1
        /\ difference \in {-1, 0, 1}

\* The number of buckets after k growths.
RECURSIVE SizeAfter(_)
SizeAfter(k) == IF k = 0 THEN INITIAL_SIZE ELSE NewSize(SizeAfter(k - 1))

C37_SortAndGrowthTerminate ==
    /\ lastOp.cmd = "mergeSort" =>
           /\ Len(lastOp.head) = Len(lastOp.before)
           /\ Len(lastOp.before) >= 2 => SplitInHalves(lastOp.before)
    /\ lastOp.head = <<>> =>
           /\ \A n \in 2..MaxSplitLen :
                  SplitInHalves([k \in 1..n |-> SortRecord(ParkN, T1, T1, k)])
           /\ \A k \in 0..MaxGrowths :
                  /\ NewSize(SizeAfter(k)) > SizeAfter(k)
                  /\ IsPrimeNumber(NewSize(SizeAfter(k)))

\* A list of the greatest length sorted a second time.
C37_Witness ==
    /\ lastOp.cmd = "mergeSort"
    /\ lastOp.was # "none"
    /\ Len(lastOp.before) = MaxSortLen
    /\ Len(split(lastOp.before).firstHalf) = Len(split(lastOp.before).secondHalf) + 1

(***************************************************************************)
(* C38: validTariff accepts a tariff exactly when                          *)
(* 0 < value15 < value15after1 < valueMaxDaily, and the tariff of every    *)
(* park of the list is such a tariff.                                      *)
(***************************************************************************)
Ascending(tariff) ==
    /\ 0 < tariff.value15
    /\ tariff.value15 < tariff.value15after1
    /\ tariff.value15after1 < tariff.valueMaxDaily

Descending(tariff) ==
    /\ tariff.value15 > tariff.value15after1
    /\ tariff.value15after1 > tariff.valueMaxDaily
    /\ tariff.valueMaxDaily > 0

====
